---- MODULE Spec2Model ----
(***************************************************************************)
(* Point-of-sale store: bundle pricing (utils.ts), the cashier cart        *)
(* (CashierView), the order and menu store with its two backends           *)
(* (useStore), and the mount of StoreProvider with its local-storage       *)
(* effects.                                                                *)
(*                                                                         *)
(* The specifications share the variables:                                 *)
(*   SpecPricing  calculateItemTotal applied to inputs drawn at Init       *)
(*   SpecCart     the cashier cart over the menu of a fresh local store    *)
(*   Spec         the order store, local mode and remote (realtime) mode   *)
(*   SpecStore    the order store and the menu store together              *)
(*   SpecMount    the mount of StoreProvider from the first start on, the  *)
(*                mounted store, and the reload of the page                *)
(*   SpecFaulty   the order store over a remote backend that may reject    *)
(*                a request                                                *)
(*   SpecRace     the mount over a remote backend that another terminal    *)
(*                writes to                                                *)
(*   SpecCheckout the cashier's Confirm Order over either backend          *)
(*   SpecModal    the form of the item modal                               *)
(*   SpecEdit     price edits of menu items over either backend            *)
(*   SpecContext  useStore with and without a StoreProvider                *)
(***************************************************************************)
EXTENDS Integers, Sequences, FiniteSets, TLC

VARIABLES
    isRealtime,   \* StoreProvider state: the remote backend is in use
    menu,         \* StoreProvider state: in-memory menu collection
    orders,       \* StoreProvider state: in-memory orders, newest first
    dbOrders,     \* remote backend: rows of table public.orders
    pushQ,        \* remote backend: change notifications not yet delivered
    nextId,       \* number of identities generated so far
    writes,       \* number of calls made to the remote backend
    last,         \* history: the store operation of the last step
    dbMenu,       \* remote backend: rows of table public.menu_items
    menuQ,        \* remote backend: menu notifications not yet delivered
    ls,           \* localStorage: the values under pos_menu and pos_orders
    configured,   \* isSupabaseConfigured: the remote backend is configured
    mount,        \* StoreProvider: progress of the mount and its queued updates
    strict,       \* the build double-invokes effects under StrictMode
    cart,         \* CashierView state: the cart lines
    priceIn,      \* pricing run: the (item, quantity) input
    priceOut,     \* pricing run: <<>> before the call, <<total>> after it
    form,         \* ItemModal state: isOpen and the fields of the form
    savedItem,    \* ItemModal: <<>>, or <<item>> handed to onSave
    checkout      \* CashierView state: progress of handleConfirmOrder

vars == <<isRealtime, menu, orders, dbOrders, pushQ, nextId, writes, last,
          dbMenu, menuQ, ls, configured, mount, strict, cart, priceIn, priceOut,
          form, savedItem, checkout>>

menuVars == <<dbMenu, menuQ>>
mountVars == <<configured, mount, strict>>
storeVars == <<isRealtime, menu, orders, dbOrders, pushQ, nextId, writes, last,
               menuVars, ls, mountVars>>
\* the store without the record of the last operation
storeState == <<isRealtime, menu, orders, dbOrders, pushQ, nextId, writes,
                menuVars, ls, mountVars>>
priceVars == <<priceIn, priceOut>>
modalVars == <<form, savedItem>>
\* the views other than the cart
viewVars == <<priceVars, modalVars, checkout>>

---------------------------------------------------------------------------
(* Bounds *)

MaxOrders == 1         \* orders created in one run
MaxItems == 2          \* line items of a created order
MaxInFlight == 2       \* undelivered change notifications
MaxWrites == 4         \* calls made to the remote backend in one run
MaxQuantity == 6       \* quantity of a cart line / of a pricing input
MaxBuyQuantity == 3    \* buyQuantity of a pricing input
MaxNewItems == 1       \* menu items added and not deleted again
MaxCartLines == 2      \* lines of the cart
MaxCartUnits == 2      \* units in the cart while an order is confirmed

---------------------------------------------------------------------------
(* Generic helpers *)

Min(a, b) == IF a < b THEN a ELSE b
Max(a, b) == IF a > b THEN a ELSE b

\* JavaScript object spread {...base, k: v}: the fields of over win.
Spread(base, over) == over @@ base

RECURSIVE SeqSum(_)
SeqSum(s) == IF s = <<>> THEN 0 ELSE Head(s) + SeqSum(Tail(s))

---------------------------------------------------------------------------
(* Types and the default menu *)

OrderStatus == {"Pending", "Paid", "Completed", "Cancelled", "Preparing", "Picked Up"}
PaymentStatus == {"Paid", "Unpaid"}

DEFAULT_MENU == <<
    [id |-> "1", name |-> "Espresso", basePrice |-> 25000, category |-> "Coffee",
     bundle |-> [enabled |-> FALSE, buyQuantity |-> 0, bundlePrice |-> 0,
                 showPromoLabel |-> FALSE]],
    [id |-> "2", name |-> "Iced Latte", basePrice |-> 35000, category |-> "Coffee",
     bundle |-> [enabled |-> TRUE, buyQuantity |-> 2, bundlePrice |-> 60000,
                 showPromoLabel |-> TRUE]],
    [id |-> "3", name |-> "Croissant", basePrice |-> 20000, category |-> "Food",
     bundle |-> [enabled |-> TRUE, buyQuantity |-> 3, bundlePrice |-> 50000,
                 showPromoLabel |-> TRUE]],
    [id |-> "4", name |-> "Green Tea", basePrice |-> 30000, category |-> "Tea",
     bundle |-> [enabled |-> FALSE, buyQuantity |-> 0, bundlePrice |-> 0,
                 showPromoLabel |-> FALSE]] >>

---------------------------------------------------------------------------
(* utils.ts: pricing *)

\* item.bundle is optional: an item without one has no bundle field.
HasBundle(item) == "bundle" \in DOMAIN item

\* !item.bundle?.enabled || !item.bundle.buyQuantity || !item.bundle.bundlePrice
\* (0 is the falsy number)
NoBundlePricing(item) ==
    \/ ~HasBundle(item)
    \/ ~item.bundle.enabled
    \/ item.bundle.buyQuantity = 0
    \/ item.bundle.bundlePrice = 0

\* Variant: the remainder is not reduced modulo buyQuantity.
calculateItemTotalFullRemainder(item, quantity) ==
    IF NoBundlePricing(item)
    THEN item.basePrice * quantity
    ELSE ((quantity \div item.bundle.buyQuantity) * item.bundle.bundlePrice)
         + (quantity * item.basePrice)

\* Variant: a bundlePrice of 0 is not treated as "no bundle pricing".
calculateItemTotalNoPriceGuard(item, quantity) ==
    IF ~HasBundle(item) \/ ~item.bundle.enabled \/ item.bundle.buyQuantity = 0
    THEN item.basePrice * quantity
    ELSE ((quantity \div item.bundle.buyQuantity) * item.bundle.bundlePrice)
         + ((quantity % item.bundle.buyQuantity) * item.basePrice)

\* Variant: the bundle price is granted once, not per complete bundle.
calculateItemTotalOneBundle(item, quantity) ==
    IF NoBundlePricing(item) \/ quantity < item.bundle.buyQuantity
    THEN item.basePrice * quantity
    ELSE item.bundle.bundlePrice
         + ((quantity - item.bundle.buyQuantity) * item.basePrice)

\* Variant: the bundle count is rounded up, so an incomplete bundle is
\* charged the bundle price.
calculateItemTotalRoundUp(item, quantity) ==
    IF NoBundlePricing(item)
    THEN item.basePrice * quantity
    ELSE ((quantity + item.bundle.buyQuantity - 1) \div item.bundle.buyQuantity)
         * item.bundle.bundlePrice

calculateItemTotal(item, quantity) ==
    IF NoBundlePricing(item)
    THEN item.basePrice * quantity
    ELSE LET buyQuantity == item.bundle.buyQuantity
             bundlePrice == item.bundle.bundlePrice
             bundleCount == quantity \div buyQuantity
             remaining == quantity % buyQuantity
         IN (bundleCount * bundlePrice) + (remaining * item.basePrice)

---------------------------------------------------------------------------
(* Pricing run: the inputs are drawn at Init, the one action applies the   *)
(* function.                                                               *)

BasePrices == {DEFAULT_MENU[k].basePrice : k \in 1..Len(DEFAULT_MENU)}
BundlePrices == {DEFAULT_MENU[k].bundle.bundlePrice : k \in 1..Len(DEFAULT_MENU)}

BundleInputs ==
    [enabled : BOOLEAN, buyQuantity : 0..MaxBuyQuantity,
     bundlePrice : BundlePrices, showPromoLabel : {FALSE}]

PricingItems ==
    {[id |-> "p", basePrice |-> b] : b \in BasePrices}
    \cup {[id |-> "p", basePrice |-> b, bundle |-> c] :
              b \in BasePrices, c \in BundleInputs}

PricingInit ==
    /\ priceIn \in [item : PricingItems, quantity : 0..MaxQuantity]
    /\ priceOut = <<>>

PricingIdle ==
    /\ priceIn = <<>>
    /\ priceOut = <<>>

\* CashierView: no order is being confirmed
CheckoutIdle == checkout = [phase |-> "idle"]

PriceLine ==
    /\ priceOut = <<>>
    /\ priceOut' = <<calculateItemTotal(priceIn.item, priceIn.quantity)>>
    /\ UNCHANGED <<priceIn, storeVars, cart, modalVars, checkout>>

---------------------------------------------------------------------------
(* CashierView: the cart *)

CartIndex(itemId) == {k \in 1..Len(cart) : cart[k].id = itemId}

addToCart(item) ==
    IF CartIndex(item.id) # {}
    THEN [k \in 1..Len(cart) |->
            IF cart[k].id = item.id
            THEN [cart[k] EXCEPT !.quantity = @ + 1]
            ELSE cart[k]]
    ELSE Append(cart, Spread(item, [quantity |-> 1]))

\* Variant: the filter keeps a line whose quantity has reached 0.
NonNegativeQuantity(line) == line.quantity >= 0

PositiveQuantity(line) == line.quantity > 0

updateQuantity(itemId, delta) ==
    SelectSeq([k \in 1..Len(cart) |->
                  IF cart[k].id = itemId
                  THEN [cart[k] EXCEPT !.quantity = Max(0, @ + delta)]
                  ELSE cart[k]],
              PositiveQuantity)

\* Variant: the cart charges the base price for every unit.
LineTotalBasePrice(line) == line.basePrice * line.quantity

LineTotal(line) == calculateItemTotal(line, line.quantity)

cartTotalOf(lines) == SeqSum([k \in 1..Len(lines) |-> LineTotal(lines[k])])

cartTotal == cartTotalOf(cart)

\* quantity stays within the bound of the model
QuantityBelowBound(itemId) == \A k \in CartIndex(itemId) : cart[k].quantity < MaxQuantity

LinesBelowBound(itemId) == CartIndex(itemId) # {} \/ Len(cart) < MaxCartLines

\* click on a menu card
AddToCart ==
    \E m \in 1..Len(menu) :
        /\ QuantityBelowBound(menu[m].id)
        /\ LinesBelowBound(menu[m].id)
        /\ cart' = addToCart(menu[m])
        /\ last' = [op |-> "addToCart", id |-> 0, pre |-> "none"]
        /\ UNCHANGED <<storeState, viewVars>>

\* click on the + or - button of a cart line
UpdateQuantity ==
    \E k \in 1..Len(cart), delta \in {-1, 1} :
        /\ delta = 1 => QuantityBelowBound(cart[k].id)
        /\ cart' = updateQuantity(cart[k].id, delta)
        /\ last' = [op |-> "updateQuantity", id |-> 0, pre |-> "none",
                     itemId |-> cart[k].id]
        /\ UNCHANGED <<storeState, viewVars>>

\* the Cancel button of the cart: setCart([])
ClearCart ==
    /\ cart # <<>>
    /\ checkout.phase = "idle"       \* disabled={isConfirming || showSuccess}
    /\ cart' = <<>>
    /\ last' = [op |-> "setCart", id |-> 0, pre |-> "none"]
    /\ UNCHANGED <<storeState, viewVars>>

---------------------------------------------------------------------------
(* ItemModal: the form of the Add / Edit Item dialog.  The text of a number *)
(* input is modelled as its sequence of decimal digits.                    *)

CATEGORIES == {"Coffee", "Tea", "Food", "Dessert", "Other"}

\* Number.prototype.toString of a non-negative integer
RECURSIVE toString(_)
toString(n) == IF n < 10 THEN <<n>> ELSE Append(toString(n \div 10), n % 10)

\* parseInt of a digit text: <<>> stands for NaN (the empty text)
RECURSIVE parseInt(_)
parseInt(text) ==
    IF text = <<>>
    THEN <<>>
    ELSE LET front == SubSeq(text, 1, Len(text) - 1)
             digit == text[Len(text)]
         IN IF front = <<>> THEN <<digit>> ELSE <<parseInt(front)[1] * 10 + digit>>

\* parseInt(text) || 0: NaN and 0 are falsy
parseIntOrZero(text) == IF parseInt(text) = <<>> THEN 0 ELSE parseInt(text)[1]

\* the useState initialisers and the isOpen effect: the fields taken from
\* initialData (<<>> for Add New Item, <<item>> for Edit)
FormFields(initialData) ==
    LET given == initialData # <<>>
        item == initialData[1]
        bundled == given /\ HasBundle(item)
    IN [name |-> IF given THEN item.name ELSE "",
        basePrice |-> IF given THEN toString(item.basePrice) ELSE <<>>,
        category |-> IF given THEN item.category ELSE "Coffee",
        bundleEnabled |-> bundled /\ item.bundle.enabled,
        buyQuantity |-> IF bundled THEN toString(item.bundle.buyQuantity) ELSE <<>>,
        bundlePrice |-> IF bundled THEN toString(item.bundle.bundlePrice) ELSE <<>>,
        showPromoLabel |-> bundled /\ item.bundle.showPromoLabel]

ModalIdle ==
    /\ form = Spread(FormFields(<<>>), [isOpen |-> FALSE])
    /\ savedItem = <<>>

\* Variant: the bundle keeps the values of the fields when it is disabled.
handleSubmitKeepsBundleFields ==
    [name |-> form.name,
     basePrice |-> parseIntOrZero(form.basePrice),
     category |-> form.category,
     bundle |-> [enabled |-> form.bundleEnabled,
                 buyQuantity |-> parseIntOrZero(form.buyQuantity),
                 bundlePrice |-> parseIntOrZero(form.bundlePrice),
                 showPromoLabel |-> form.showPromoLabel]]

\* the item handed to onSave
handleSubmit ==
    LET bundle ==
            [enabled |-> form.bundleEnabled,
             buyQuantity |-> IF form.bundleEnabled
                             THEN parseIntOrZero(form.buyQuantity) ELSE 0,
             bundlePrice |-> IF form.bundleEnabled
                             THEN parseIntOrZero(form.bundlePrice) ELSE 0,
             showPromoLabel |-> IF form.bundleEnabled
                                THEN form.showPromoLabel ELSE FALSE]
    IN [name |-> form.name,
        basePrice |-> parseIntOrZero(form.basePrice),
        category |-> form.category,
        bundle |-> bundle]

\* the constraints of the rendered inputs (required, min), which the browser
\* checks before it fires onSubmit; the bundle inputs are rendered only while
\* the bundle is enabled
FormValid ==
    /\ form.name # ""
    /\ form.basePrice # <<>>
    /\ form.bundleEnabled =>
          /\ form.buyQuantity # <<>>
          /\ parseInt(form.buyQuantity)[1] >= 2
          /\ form.bundlePrice # <<>>

\* texts typed into the inputs
NameTexts == {"", "Mocha"}
BasePriceTexts == {<<>>, <<0>>, <<2, 8, 0, 0, 0>>}
BuyQuantityTexts == {<<>>, <<0>>, <<3>>}
BundlePriceTexts == {<<>>, <<0>>, <<7, 5, 0, 0, 0>>}

ModalFrame == UNCHANGED <<storeVars, cart, priceVars, checkout>>

\* Add New Item (initialData undefined) or the edit button of a menu row
OpenModal ==
    /\ ~form.isOpen
    /\ \E initialData \in {<<>>} \cup {<<menu[m]>> : m \in 1..Len(menu)} :
          form' = Spread(FormFields(initialData), [isOpen |-> TRUE])
    /\ savedItem' = <<>>
    /\ ModalFrame

SetField(field, value) ==
    /\ form.isOpen
    /\ form' = [form EXCEPT ![field] = value]
    /\ UNCHANGED savedItem
    /\ ModalFrame

SetName == \E text \in NameTexts : SetField("name", text)
SetBasePrice == \E text \in BasePriceTexts : SetField("basePrice", text)
SetCategory == \E category \in CATEGORIES : SetField("category", category)
SetBundleEnabled == SetField("bundleEnabled", ~form.bundleEnabled)
SetBuyQuantity ==
    form.bundleEnabled /\ \E text \in BuyQuantityTexts : SetField("buyQuantity", text)
SetBundlePrice ==
    form.bundleEnabled /\ \E text \in BundlePriceTexts : SetField("bundlePrice", text)
SetShowPromoLabel ==
    form.bundleEnabled /\ SetField("showPromoLabel", ~form.showPromoLabel)

\* the Save button: onSubmit, then onClose
SubmitForm ==
    /\ form.isOpen
    /\ FormValid
    /\ savedItem' = <<handleSubmit>>
    /\ form' = [form EXCEPT !.isOpen = FALSE]
    /\ ModalFrame

\* the X button: onClose
CloseModal ==
    /\ form.isOpen
    /\ form' = [form EXCEPT !.isOpen = FALSE]
    /\ UNCHANGED savedItem
    /\ ModalFrame

---------------------------------------------------------------------------
(* useStore: the order store *)

Terminal == {"Cancelled", "Picked Up"}

\* Helpers to map DB snake_case to App camelCase (customerName, createdAt
\* and note are carried along unchanged and are left out of the model).
mapDbOrder(dbOrder) ==
    [id |-> dbOrder.id,
     items |-> dbOrder.items,
     total |-> dbOrder.total,
     status |-> dbOrder.status,
     paymentStatus |-> dbOrder.payment_status]

OrderIds(os) == {os[k].id : k \in 1..Len(os)}

\* orders.find(o => o.id === orderId): the first match
FindOrder(os, orderId) ==
    os[CHOOSE k \in 1..Len(os) :
            /\ os[k].id = orderId
            /\ \A j \in 1..(k - 1) : os[j].id # orderId]

IsPrepared(item) == item.isPrepared

Unprepared(item) == Spread(item, [isPrepared |-> FALSE])

\* order.items with the flag of every item whose id is itemId negated
ToggledItems(items, itemId) ==
    [k \in 1..Len(items) |->
        IF items[k].id = itemId
        THEN [items[k] EXCEPT !.isPrepared = ~@]
        ELSE items[k]]

\* Variant: only the three kitchen statuses are recomputed, 'Paid' is kept.
DerivedStatusKitchenOnly(status, updatedItems) ==
    LET preparedCount == Len(SelectSeq(updatedItems, IsPrepared))
    IN IF status \in {"Pending", "Preparing", "Completed"}
       THEN IF preparedCount = 0 THEN "Pending"
            ELSE IF preparedCount = Len(updatedItems) THEN "Completed"
            ELSE "Preparing"
       ELSE status

\* Variant: the guard forgets 'Picked Up'.
DerivedStatusCancelledOnly(status, updatedItems) ==
    LET preparedCount == Len(SelectSeq(updatedItems, IsPrepared))
    IN IF status # "Cancelled"
       THEN IF preparedCount = 0 THEN "Pending"
            ELSE IF preparedCount = Len(updatedItems) THEN "Completed"
            ELSE "Preparing"
       ELSE status

\* Variant: "all prepared" is tested before "none prepared".
DerivedStatusAllFirst(status, updatedItems) ==
    LET preparedCount == Len(SelectSeq(updatedItems, IsPrepared))
    IN IF status # "Cancelled" /\ status # "Picked Up"
       THEN IF preparedCount = Len(updatedItems) THEN "Completed"
            ELSE IF preparedCount = 0 THEN "Pending"
            ELSE "Preparing"
       ELSE status

\* Variant: one prepared line item is enough for 'Completed'.
DerivedStatusAnyPrepared(status, updatedItems) ==
    LET preparedCount == Len(SelectSeq(updatedItems, IsPrepared))
    IN IF status # "Cancelled" /\ status # "Picked Up"
       THEN IF preparedCount = 0 THEN "Pending" ELSE "Completed"
       ELSE status

\* the status toggleOrderItemPrepared derives from the updated items
DerivedStatus(status, updatedItems) ==
    LET totalItems == Len(updatedItems)
        preparedCount == Len(SelectSeq(updatedItems, IsPrepared))
    IN IF status # "Cancelled" /\ status # "Picked Up"
       THEN IF preparedCount = 0 THEN "Pending"
            ELSE IF preparedCount = totalItems THEN "Completed"
            ELSE "Preparing"
       ELSE status

\* status of the order createOrder builds
InitialStatus(paymentStatus) == IF paymentStatus = "Paid" THEN "Paid" ELSE "Pending"

\* Variant: a status write also resets the payment status of the row.
DbUpdateResetsPayment(id, changes) ==
    [rows |-> {IF r.id = id
               THEN Spread(r, Spread(changes, [payment_status |-> "Unpaid"]))
               ELSE r : r \in dbOrders},
     events |-> LET hit == {r \in dbOrders : r.id = id}
                IN IF hit = {} THEN <<>>
                   ELSE <<[eventType |-> "UPDATE",
                           new |-> Spread(CHOOSE r \in hit : TRUE,
                                          Spread(changes, [payment_status |-> "Unpaid"]))]>>]

\* the backend's answer to update(...).eq('id', id): the rows after the
\* write and the UPDATE notifications it publishes
DbUpdate(id, changes) ==
    [rows |-> {IF r.id = id THEN Spread(r, changes) ELSE r : r \in dbOrders},
     events |-> LET hit == {r \in dbOrders : r.id = id}
                IN IF hit = {} THEN <<>>
                   ELSE <<[eventType |-> "UPDATE",
                           new |-> Spread(CHOOSE r \in hit : TRUE, changes)]>>]

\* the remote backend takes another call within the bounds of the model
CanWrite == writes < MaxWrites /\ Len(pushQ) + Len(menuQ) < MaxInFlight

NoOp == [op |-> "none", id |-> 0, pre |-> "none"]

\* no setMenu / setOrders / setIsRealtime call is waiting for the next render
NoUpdates == [menu |-> <<>>, orders |-> <<>>, isRealtime |-> <<>>]

\* StoreProvider has mounted: no effect is left to run, no update is queued
Mounted == [phase |-> "mounted", pass |-> 0, queue |-> NoUpdates]

(* const createOrder = async (orderData) => ... *)
createOrder(orderData) ==
    LET newId == nextId + 1
        newOrderLocal ==
            [id |-> newId,
             items |-> [k \in 1..Len(orderData.items) |-> Unprepared(orderData.items[k])],
             total |-> orderData.total,
             status |-> InitialStatus(orderData.paymentStatus),
             paymentStatus |-> orderData.paymentStatus]
        dbOrder ==
            [id |-> newId,
             items |-> newOrderLocal.items,
             total |-> orderData.total,
             status |-> newOrderLocal.status,
             payment_status |-> orderData.paymentStatus]
    IN /\ nextId < MaxOrders
       /\ nextId' = newId
       /\ last' = [op |-> "createOrder", id |-> newId, pre |-> "none",
                   returned |-> IF isRealtime THEN <<mapDbOrder(dbOrder)>>
                                ELSE <<newOrderLocal>>]
       /\ IF isRealtime
          THEN /\ CanWrite
               /\ writes' = writes + 1
               /\ dbOrders' = dbOrders \cup {dbOrder}
               /\ pushQ' = Append(pushQ, [eventType |-> "INSERT", new |-> dbOrder])
               /\ UNCHANGED <<orders, ls>>
          ELSE /\ orders' = <<newOrderLocal>> \o orders
               /\ ls' = [ls EXCEPT !.pos_orders = <<orders'>>]
               /\ UNCHANGED <<dbOrders, pushQ, writes>>
       /\ UNCHANGED <<isRealtime, menu, menuVars, mountVars>>

(* const updateOrderStatus = async (id, status) => ... *)
updateOrderStatus(id, status) ==
    LET written == DbUpdate(id, [status |-> status])
    IN /\ IF isRealtime
          THEN /\ CanWrite
               /\ writes' = writes + 1
               /\ dbOrders' = written.rows
               /\ pushQ' = pushQ \o written.events
               /\ UNCHANGED <<orders, ls>>
          ELSE /\ orders' = [k \in 1..Len(orders) |->
                                IF orders[k].id = id
                                THEN [orders[k] EXCEPT !.status = status]
                                ELSE orders[k]]
               /\ ls' = [ls EXCEPT !.pos_orders = <<orders'>>]
               /\ UNCHANGED <<dbOrders, pushQ, writes>>
       /\ UNCHANGED <<isRealtime, menu, nextId, menuVars, mountVars, cart, viewVars>>

(* const toggleOrderItemPrepared = async (orderId, itemId) => ... *)
toggleOrderItemPrepared(orderId, itemId) ==
    /\ orderId \in OrderIds(orders)             \* if (!order) return;
    /\ LET order == FindOrder(orders, orderId)
           updatedItems == ToggledItems(order.items, itemId)
           newStatus == DerivedStatus(order.status, updatedItems)
           written == DbUpdate(orderId, [items |-> updatedItems, status |-> newStatus])
       IN /\ last' = [op |-> "toggleOrderItemPrepared", id |-> orderId,
                      pre |-> order.status]
          /\ IF isRealtime
             THEN /\ CanWrite
                  /\ writes' = writes + 1
                  /\ dbOrders' = written.rows
                  /\ pushQ' = pushQ \o written.events
                  /\ UNCHANGED <<orders, ls>>
             ELSE /\ orders' = [k \in 1..Len(orders) |->
                                   IF orders[k].id = orderId
                                   THEN [orders[k] EXCEPT !.items = updatedItems,
                                                          !.status = newStatus]
                                   ELSE orders[k]]
                  /\ ls' = [ls EXCEPT !.pos_orders = <<orders'>>]
                  /\ UNCHANGED <<dbOrders, pushQ, writes>>
    /\ UNCHANGED <<isRealtime, menu, nextId, menuVars, mountVars, cart, viewVars>>

(* const deleteOrder = async (id) => ... *)
deleteOrder(id) ==
    LET hit == {r \in dbOrders : r.id = id}
        OtherId(o) == o.id # id
    IN /\ last' = [op |-> "deleteOrder", id |-> id, pre |-> "none"]
       /\ IF isRealtime
          THEN /\ CanWrite
               /\ writes' = writes + 1
               /\ dbOrders' = dbOrders \ hit
               /\ pushQ' = IF hit = {} THEN pushQ
                           ELSE Append(pushQ, [eventType |-> "DELETE",
                                               old |-> CHOOSE r \in hit : TRUE])
               /\ UNCHANGED <<orders, ls>>
          ELSE /\ orders' = SelectSeq(orders, OtherId)
               /\ ls' = [ls EXCEPT !.pos_orders = <<orders'>>]
               /\ UNCHANGED <<dbOrders, pushQ, writes>>
       /\ UNCHANGED <<isRealtime, menu, nextId, menuVars, mountVars, cart, viewVars>>

\* The remote branch of an operation whose request fails: supabase-js
\* resolves with { data: null, error } and does not throw, the row is not
\* written and no change notification is sent.
RejectedWrite(call) ==
    /\ isRealtime
    /\ CanWrite
    /\ writes' = writes + 1
    /\ last' = Spread(call, [rejected |-> TRUE])
    /\ UNCHANGED <<orders, ls, dbOrders, pushQ, nextId>>
    /\ UNCHANGED <<isRealtime, menu, menuVars, mountVars>>

\* Variant: createOrder shows the order it built although the insert failed.
createOrderRejectedOptimistic(orderData) ==
    /\ isRealtime
    /\ CanWrite
    /\ writes' = writes + 1
    /\ last' = [op |-> "createOrder", id |-> 0, pre |-> "none",
                returned |-> <<>>, rejected |-> TRUE]
    /\ orders' = <<[id |-> nextId + 1,
                    items |-> [k \in 1..Len(orderData.items) |->
                                  Unprepared(orderData.items[k])],
                    total |-> orderData.total,
                    status |-> InitialStatus(orderData.paymentStatus),
                    paymentStatus |-> orderData.paymentStatus]>> \o orders
    /\ UNCHANGED <<ls, dbOrders, pushQ, nextId>>
    /\ UNCHANGED <<isRealtime, menu, menuVars, mountVars>>

\* createOrder, insert failed: if (data) ... is skipped, return null
createOrderRejected(orderData) ==
    RejectedWrite([op |-> "createOrder", id |-> 0, pre |-> "none",
                   returned |-> <<>>])

\* updateOrderStatus, update failed: the result is not looked at
updateOrderStatusRejected(id, status) ==
    RejectedWrite([op |-> "updateOrderStatus", id |-> id, pre |-> "none"])

\* toggleOrderItemPrepared, update failed
toggleOrderItemPreparedRejected(orderId, itemId) ==
    /\ orderId \in OrderIds(orders)             \* if (!order) return;
    /\ RejectedWrite([op |-> "toggleOrderItemPrepared", id |-> orderId,
                      pre |-> FindOrder(orders, orderId).status])

\* deleteOrder, delete failed
deleteOrderRejected(id) ==
    RejectedWrite([op |-> "deleteOrder", id |-> id, pre |-> "none"])

\* Variant: an order pushed as Cancelled is dropped from the collection.
ordersSubDropsCancelled(payload) ==
    LET Kept(o) == o.id # payload.new.id
    IN IF payload.eventType = "INSERT"
       THEN <<mapDbOrder(payload.new)>> \o orders
       ELSE IF payload.eventType = "UPDATE"
       THEN IF payload.new.status = "Cancelled"
            THEN SelectSeq(orders, Kept)
            ELSE [k \in 1..Len(orders) |->
                    IF orders[k].id = payload.new.id
                    THEN mapDbOrder(payload.new)
                    ELSE orders[k]]
       ELSE orders

(* ordersSub: .on('postgres_changes', {event: '*', table: 'orders'}, ...) *)
ordersSub(payload) ==
    IF payload.eventType = "INSERT"
    THEN <<mapDbOrder(payload.new)>> \o orders
    ELSE IF payload.eventType = "UPDATE"
    THEN [k \in 1..Len(orders) |->
            IF orders[k].id = payload.new.id
            THEN mapDbOrder(payload.new)
            ELSE orders[k]]
    ELSE orders

---------------------------------------------------------------------------
(* useStore: the menu store *)

\* JavaScript undefined and null, SQL NULL
Null == "null"

\* obj[key] for an optional string property
Prop(obj, key) == IF key \in DOMAIN obj THEN obj[key] ELSE Null

\* Helpers to map DB snake_case to App camelCase
mapDbMenuItem(dbItem) ==
    [id |-> dbItem.id,
     name |-> dbItem.name,
     basePrice |-> dbItem.base_price,
     category |-> dbItem.category,
     image |-> dbItem.image,
     bundle |-> dbItem.bundle_config]

\* the dbItem addMenuItem builds; a property that is undefined is not sent
MenuDbItem(item) ==
    [name |-> item.name, base_price |-> item.basePrice, category |-> item.category]
        @@ (IF "bundle" \in DOMAIN item THEN [bundle_config |-> item.bundle] ELSE <<>>)

\* insert into public.menu_items: columns not sent take their defaults
InsertMenuRow(id, dbItem) ==
    Spread([id |-> id, image |-> Null, bundle_config |-> [enabled |-> FALSE]], dbItem)

MenuIds(ms) == {ms[k].id : k \in 1..Len(ms)}

\* identities still known to the client, the backend or a notification
UsedMenuIds ==
    MenuIds(menu) \cup {r.id : r \in dbMenu}
        \cup {(IF menuQ[k].eventType = "DELETE" THEN menuQ[k].old ELSE menuQ[k].new).id :
                  k \in 1..Len(menuQ)}

NewMenuIds == {ToString(Len(DEFAULT_MENU) + k) : k \in 1..MaxNewItems}

\* generateId() / uuid_generate_v4(): an identity not in use
FreshMenuId == CHOOSE id \in NewMenuIds \ UsedMenuIds : TRUE

(* const addMenuItem = async (item) => ... *)
addMenuItem(item) ==
    LET newId == FreshMenuId
        row == InsertMenuRow(newId, MenuDbItem(item))
    IN /\ NewMenuIds \ UsedMenuIds # {}
       /\ last' = [op |-> "addMenuItem", id |-> 0, pre |-> "none",
                   menuId |-> newId, item |-> item]
       /\ IF isRealtime
          THEN /\ CanWrite
               /\ writes' = writes + 1
               /\ dbMenu' = dbMenu \cup {row}
               /\ menuQ' = Append(menuQ, [eventType |-> "INSERT", new |-> row])
               /\ UNCHANGED <<menu, ls>>
          ELSE /\ menu' = Append(menu, Spread(item, [id |-> newId]))
               /\ ls' = [ls EXCEPT !.pos_menu = <<menu'>>]
               /\ UNCHANGED <<dbMenu, menuQ, writes>>
       /\ UNCHANGED <<isRealtime, orders, dbOrders, pushQ, nextId, mountVars, cart,
                      viewVars>>

\* the columns updateMenuItem copies: the properties of updates that are truthy
MenuDbUpdates(updates) ==
    (IF "name" \in DOMAIN updates /\ updates.name # ""
     THEN [name |-> updates.name] ELSE <<>>)
    @@ (IF "basePrice" \in DOMAIN updates /\ updates.basePrice # 0
        THEN [base_price |-> updates.basePrice] ELSE <<>>)
    @@ (IF "category" \in DOMAIN updates /\ updates.category # ""
        THEN [category |-> updates.category] ELSE <<>>)
    @@ (IF "bundle" \in DOMAIN updates
        THEN [bundle_config |-> updates.bundle] ELSE <<>>)

\* the order with the lines of the item id priced by the updated item
Repriced(order, id, updates) ==
    [order EXCEPT !.total =
        SeqSum([k \in 1..Len(order.items) |->
                   IF order.items[k].id = id
                   THEN calculateItemTotal(Spread(order.items[k], updates),
                                           order.items[k].quantity)
                   ELSE LineTotal(order.items[k])])]

\* Variant: an update of a menu item re-prices the orders in memory.
updateMenuItemRepricing(id, updates) ==
    LET hit == {r \in dbMenu : r.id = id}
        dbUpdates == MenuDbUpdates(updates)
    IN /\ last' = [op |-> "updateMenuItem", id |-> 0, pre |-> "none",
                   menuId |-> id, item |-> updates]
       /\ orders' = [k \in 1..Len(orders) |-> Repriced(orders[k], id, updates)]
       /\ IF isRealtime
          THEN /\ CanWrite
               /\ writes' = writes + 1
               /\ dbMenu' = {IF r.id = id THEN Spread(r, dbUpdates) ELSE r : r \in dbMenu}
               /\ menuQ' = IF hit = {} THEN menuQ
                           ELSE Append(menuQ,
                                       [eventType |-> "UPDATE",
                                        new |-> Spread(CHOOSE r \in hit : TRUE, dbUpdates)])
               /\ UNCHANGED <<menu, ls>>
          ELSE /\ menu' = [k \in 1..Len(menu) |->
                              IF menu[k].id = id THEN Spread(menu[k], updates)
                              ELSE menu[k]]
               /\ ls' = [pos_menu |-> <<menu'>>, pos_orders |-> <<orders'>>]
               /\ UNCHANGED <<dbMenu, menuQ, writes>>
       /\ UNCHANGED <<isRealtime, dbOrders, pushQ, nextId, mountVars, cart, viewVars>>

(* const updateMenuItem = async (id, updates) => ... *)
updateMenuItem(id, updates) ==
    LET hit == {r \in dbMenu : r.id = id}
        dbUpdates == MenuDbUpdates(updates)
    IN /\ last' = [op |-> "updateMenuItem", id |-> 0, pre |-> "none",
                   menuId |-> id, item |-> updates]
       /\ IF isRealtime
          THEN /\ CanWrite
               /\ writes' = writes + 1
               /\ dbMenu' = {IF r.id = id THEN Spread(r, dbUpdates) ELSE r : r \in dbMenu}
               /\ menuQ' = IF hit = {} THEN menuQ
                           ELSE Append(menuQ,
                                       [eventType |-> "UPDATE",
                                        new |-> Spread(CHOOSE r \in hit : TRUE, dbUpdates)])
               /\ UNCHANGED <<menu, ls>>
          ELSE /\ menu' = [k \in 1..Len(menu) |->
                              IF menu[k].id = id THEN Spread(menu[k], updates)
                              ELSE menu[k]]
               /\ ls' = [ls EXCEPT !.pos_menu = <<menu'>>]
               /\ UNCHANGED <<dbMenu, menuQ, writes>>
       /\ UNCHANGED <<isRealtime, orders, dbOrders, pushQ, nextId, mountVars, cart,
                      viewVars>>

(* const deleteMenuItem = async (id) => ... *)
deleteMenuItem(id) ==
    LET hit == {r \in dbMenu : r.id = id}
        OtherId(item) == item.id # id
    IN /\ last' = [op |-> "deleteMenuItem", id |-> 0, pre |-> "none", menuId |-> id]
       /\ IF isRealtime
          THEN /\ CanWrite
               /\ writes' = writes + 1
               /\ dbMenu' = dbMenu \ hit
               /\ menuQ' = IF hit = {} THEN menuQ
                           ELSE Append(menuQ, [eventType |-> "DELETE",
                                               old |-> [id |-> id]])
               /\ UNCHANGED <<menu, ls>>
          ELSE /\ menu' = SelectSeq(menu, OtherId)
               /\ ls' = [ls EXCEPT !.pos_menu = <<menu'>>]
               /\ UNCHANGED <<dbMenu, menuQ, writes>>
       /\ UNCHANGED <<isRealtime, orders, dbOrders, pushQ, nextId, mountVars, cart,
                      viewVars>>

(* menuSub: .on('postgres_changes', {event: '*', table: 'menu_items'}, ...) *)
menuSub(payload) ==
    LET OtherId(item) == item.id # payload.old.id
    IN IF payload.eventType = "INSERT"
       THEN Append(menu, mapDbMenuItem(payload.new))
       ELSE IF payload.eventType = "UPDATE"
       THEN [k \in 1..Len(menu) |->
               IF menu[k].id = payload.new.id
               THEN mapDbMenuItem(payload.new)
               ELSE menu[k]]
       ELSE IF payload.eventType = "DELETE"
       THEN SelectSeq(menu, OtherId)
       ELSE menu

---------------------------------------------------------------------------
(* Steps of the order store: the callers of the store operations *)

\* the first k items of the default menu as cart lines of quantity 1
CartOfSize(k) == [j \in 1..k |-> Spread(DEFAULT_MENU[j], [quantity |-> 1])]

ItemBound == Min(MaxItems, Len(DEFAULT_MENU))

PaymentChoices == <<"Unpaid", "Paid">>

\* the argument of createOrder, as CashierView.handleConfirmOrder builds it
\* (customerName and note are left out of the model)
OrderData(k, paymentStatus) ==
    [items |-> CartOfSize(k), total |-> cartTotalOf(CartOfSize(k)),
     paymentStatus |-> paymentStatus]

ItemIdsTried == {DEFAULT_MENU[k].id : k \in 1..ItemBound}

\* The store operation takes any cart; CashierView.handleConfirmOrder never
\* passes an empty one, an order without line items enters through the
\* operation itself. Larger carts and 'Unpaid' are tried first.
CreateOrder ==
    /\ mount = Mounted
    /\ \E j \in 0..ItemBound, q \in 1..Len(PaymentChoices) :
           createOrder(OrderData(ItemBound - j, PaymentChoices[q]))
    /\ UNCHANGED <<cart, viewVars>>

\* OrderDetailPanel: checkbox of a line item. The step is the store
\* operation for any order in memory and any item id: the panel disables
\* the checkbox of a Picked Up order, the operation has its own guard.
ToggleItem ==
    /\ mount = Mounted
    /\ \E orderId \in OrderIds(orders), itemId \in ItemIdsTried :
           toggleOrderItemPrepared(orderId, itemId)

\* OrderDetailPanel: "Mark as Picked Up", rendered when status is Completed
MarkAsPickedUp ==
    /\ mount = Mounted
    /\ \E k \in 1..Len(orders) :
           /\ orders[k].status = "Completed"
           /\ last' = [op |-> "MarkAsPickedUp", id |-> orders[k].id,
                       pre |-> orders[k].status]
           /\ updateOrderStatus(orders[k].id, "Picked Up")

\* Variant: the cancel button is rendered for the three kitchen statuses only.
CancelAvailableKitchenOnly(order) ==
    order.status \in {"Pending", "Preparing", "Completed"}

\* AdminDashboard: the condition under which the cancel button of an order
\* row is rendered
CancelAvailable(order) ==
    order.status # "Cancelled" /\ order.status # "Picked Up"

\* AdminDashboard: the cancel button, confirmed
handleCancelOrder ==
    /\ mount = Mounted
    /\ \E k \in 1..Len(orders) :
           /\ CancelAvailable(orders[k])
           /\ last' = [op |-> "handleCancelOrder", id |-> orders[k].id,
                       pre |-> orders[k].status]
           /\ updateOrderStatus(orders[k].id, "Cancelled")

\* AdminDashboard: the delete button, confirmed
handleDeleteOrder ==
    /\ mount = Mounted
    /\ \E id \in OrderIds(orders) : deleteOrder(id)

\* the realtime channel delivers the oldest pending notification
DeliverPush ==
    /\ mount = Mounted
    /\ pushQ # <<>>
    /\ orders' = ordersSub(Head(pushQ))
    /\ pushQ' = Tail(pushQ)
    /\ last' = [op |-> "ordersSub", id |-> 0, pre |-> "none"]
    /\ UNCHANGED <<isRealtime, menu, dbOrders, nextId, writes, menuVars, ls,
                   mountVars, cart, viewVars>>

\* The same clicks when the backend rejects the request
CreateOrderRejected ==
    /\ mount = Mounted
    /\ \E j \in 0..ItemBound, q \in 1..Len(PaymentChoices) :
           createOrderRejected(OrderData(ItemBound - j, PaymentChoices[q]))
    /\ UNCHANGED <<cart, viewVars>>

ToggleItemRejected ==
    /\ mount = Mounted
    /\ \E orderId \in OrderIds(orders), itemId \in ItemIdsTried :
           toggleOrderItemPreparedRejected(orderId, itemId)
    /\ UNCHANGED <<cart, viewVars>>

UpdateStatusRejected ==
    /\ mount = Mounted
    /\ \E k \in 1..Len(orders) :
           \/ /\ orders[k].status = "Completed"
              /\ updateOrderStatusRejected(orders[k].id, "Picked Up")
           \/ /\ CancelAvailable(orders[k])
              /\ updateOrderStatusRejected(orders[k].id, "Cancelled")
    /\ UNCHANGED <<cart, viewVars>>

DeleteOrderRejected ==
    /\ mount = Mounted
    /\ \E id \in OrderIds(orders) : deleteOrderRejected(id)
    /\ UNCHANGED <<cart, viewVars>>

---------------------------------------------------------------------------
(* CashierView.handleConfirmOrder.  The function belongs to the render in  *)
(* which Confirm was clicked: after the await it still sees the cart,      *)
(* cartTotal and paymentStatus of that render, which checkout holds.       *)

CartUnits(lines) == SeqSum([k \in 1..Len(lines) |-> lines[k].quantity])

\* Variant: the continuation reads the cart as it is after the delay.
handleConfirmOrderDataLiveCart ==
    [items |-> cart, total |-> checkout.cartTotal,
     paymentStatus |-> checkout.paymentStatus]

\* the argument of onCreateOrder (customerName and note are left out)
handleConfirmOrderData ==
    [items |-> checkout.cart, total |-> checkout.cartTotal,
     paymentStatus |-> checkout.paymentStatus]

\* click on Confirm Order: if (cart.length === 0) return;
\* setIsConfirming(true); await the 600 ms timer
PressConfirm ==
    /\ mount = Mounted
    /\ checkout.phase = "idle"   \* disabled={... || isConfirming || showSuccess}
    /\ cart # <<>>
    /\ nextId < MaxOrders
    /\ \E q \in 1..Len(PaymentChoices) :
           checkout' = [phase |-> "confirming", cart |-> cart,
                        cartTotal |-> cartTotal,
                        paymentStatus |-> PaymentChoices[q]]
    /\ UNCHANGED <<storeVars, cart, priceVars, modalVars>>

\* the timer fires: onCreateOrder(...), whose promise is not awaited;
\* setIsConfirming(false); setShowSuccess(true); the 1500 ms timer starts
ConfirmOrder ==
    /\ checkout.phase = "confirming"
    /\ createOrder(handleConfirmOrderData)
    /\ checkout' = [phase |-> "success", cart |-> checkout.cart, created |-> TRUE]
    /\ UNCHANGED <<cart, priceVars, modalVars>>

\* the same when the backend rejects the insert
ConfirmOrderRejected ==
    /\ checkout.phase = "confirming"
    /\ createOrderRejected(handleConfirmOrderData)
    /\ checkout' = [phase |-> "success", cart |-> checkout.cart, created |-> FALSE]
    /\ UNCHANGED <<cart, priceVars, modalVars>>

\* the 1500 ms timer fires: setCart([]), the fields are reset,
\* setShowSuccess(false)
ResetAfterSuccess ==
    /\ checkout.phase = "success"
    /\ cart' = <<>>
    /\ checkout' = [phase |-> "idle"]
    /\ UNCHANGED <<storeVars, priceVars, modalVars>>

\* the cart steps, for carts of at most MaxCartUnits units
CashierAddToCart == AddToCart /\ CartUnits(cart') <= MaxCartUnits
CashierUpdateQuantity == UpdateQuantity /\ CartUnits(cart') <= MaxCartUnits

---------------------------------------------------------------------------
(* Steps of the menu store: AdminDashboard and the realtime channel *)

DisabledBundle ==
    [enabled |-> FALSE, buyQuantity |-> 0, bundlePrice |-> 0, showPromoLabel |-> FALSE]

\* Arguments of addMenuItem: the item data ItemModal.handleSubmit builds
\* (name, basePrice, category, bundle), and an item that also carries the
\* optional image of type MenuItem.
NewItems ==
    {[name |-> "Mocha", basePrice |-> 28000, category |-> "Coffee",
      bundle |-> DisabledBundle],
     [name |-> "Mocha", basePrice |-> 28000, category |-> "Coffee",
      image |-> "mocha.png", bundle |-> DisabledBundle]}

\* the price typed into the form of an existing item
EditedPrices == {28000}

\* the item data ItemModal.handleSubmit builds for an edited item
ItemEdits(item) ==
    {[name |-> item.name, basePrice |-> p, category |-> item.category,
      bundle |-> item.bundle] : p \in EditedPrices}

\* AdminDashboard.handleSaveItem without an editingItem
AddMenuItem ==
    /\ mount = Mounted
    /\ \E item \in NewItems : addMenuItem(item)

\* AdminDashboard.handleSaveItem with an editingItem
EditMenuItem ==
    /\ mount = Mounted
    /\ \E k \in 1..Len(menu) :
           \E updates \in ItemEdits(menu[k]) : updateMenuItem(menu[k].id, updates)

\* the item data ItemModal.handleSubmit builds when the Base Price input of
\* an existing item holds the text (the input is required, and min="0")
PriceEdit(item, text) ==
    [name |-> item.name, basePrice |-> parseIntOrZero(text),
     category |-> item.category, bundle |-> item.bundle]

\* AdminDashboard.handleSaveItem with an editingItem whose price was retyped
SaveEditedPrice ==
    /\ mount = Mounted
    /\ \E k \in 1..Len(menu), text \in BasePriceTexts \ {<<>>} :
           updateMenuItem(menu[k].id, PriceEdit(menu[k], text))

\* useContext(StoreContext): <<>> stands for undefined, the default value of
\* the context, which a component without a StoreProvider above it reads
StoreContextValue(provided) ==
    IF provided
    THEN <<[menu |-> menu, orders |-> orders, isRealtime |-> isRealtime]>>
    ELSE <<>>

\* Variant: useStore hands on whatever the context holds.
useStoreUnchecked(context) == [threw |-> FALSE, value |-> context]

(* export function useStore() *)
useStore(context) ==
    IF context = <<>>
    THEN [threw |-> TRUE, message |-> "useStore must be used within a StoreProvider"]
    ELSE [threw |-> FALSE, value |-> context[1]]

\* a component that calls useStore renders, below a StoreProvider or not
UseStore ==
    /\ \E provided \in BOOLEAN :
           last' = [op |-> "useStore", id |-> 0, pre |-> "none",
                    provided |-> provided,
                    result |-> useStore(StoreContextValue(provided))]
    /\ UNCHANGED <<storeState, cart, viewVars>>

\* AdminDashboard: the delete button of a menu row
DeleteMenuItem ==
    /\ mount = Mounted
    /\ \E k \in 1..Len(menu) : deleteMenuItem(menu[k].id)

\* the realtime channel delivers the oldest pending menu notification
DeliverMenuPush ==
    /\ mount = Mounted
    /\ menuQ # <<>>
    /\ menu' = menuSub(Head(menuQ))
    /\ menuQ' = Tail(menuQ)
    /\ last' = [op |-> "menuSub", id |-> 0, pre |-> "none"]
    /\ UNCHANGED <<isRealtime, orders, dbOrders, pushQ, nextId, writes, dbMenu, ls,
                   mountVars, cart, viewVars>>

---------------------------------------------------------------------------
(* StoreProvider: the mount. The effects of a commit run in the order of     *)
(* their declaration and see the state of the render they belong to; the     *)
(* state updates they queue are applied by the next render. Under StrictMode *)
(* a development build runs the effects of the mount a second time before    *)
(* that render; a production build runs them once.                           *)
(* localStorage holds under each key <<>> (no entry) or <<value>>, the JSON  *)
(* text of value; every text, '[]' included, is truthy.                      *)

\* savedMenu ? JSON.parse(savedMenu) : DEFAULT_MENU
SavedOr(saved, default) == IF saved # <<>> THEN saved[1] ELSE default

\* the value a state variable takes in the next render
Applied(current, updates) ==
    IF updates # <<>> THEN updates[Len(updates)] ELSE current

RECURSIVE OrdersNewestFirst(_)
\* select('*').order('created_at', {ascending: false}): identities grow
\* with the time of creation
OrdersNewestFirst(rows) ==
    IF rows = {} THEN <<>>
    ELSE LET r == CHOOSE r \in rows : \A q \in rows : q.id <= r.id
         IN <<mapDbOrder(r)>> \o OrdersNewestFirst(rows \ {r})

RECURSIVE MenuInOrder(_)
\* select('*').order('created_at'): created_at is not part of the model, the
\* rows come in one fixed order
MenuInOrder(rows) ==
    IF rows = {} THEN <<>>
    ELSE LET r == CHOOSE r \in rows : TRUE
         IN <<mapDbMenuItem(r)>> \o MenuInOrder(rows \ {r})

\* useEffect(() => {...}, []): Initial Load & Subscription
LoadEffect ==
    /\ mount.phase = "load"
    /\ mount' =
          [mount EXCEPT
              !.phase = "syncMenu",
              !.queue =
                  IF configured
                  THEN [@ EXCEPT !.isRealtime = Append(@, TRUE)]
                  ELSE [@ EXCEPT
                           !.menu = Append(@, SavedOr(ls.pos_menu, DEFAULT_MENU)),
                           !.orders = Append(@, SavedOr(ls.pos_orders, <<>>))]]
    /\ UNCHANGED <<isRealtime, menu, orders, dbOrders, pushQ, nextId, writes, last,
                   menuVars, ls, configured, strict, cart, viewVars>>

\* useEffect(() => {...}, [menu, isRealtime]): Sync to Local Storage
SyncMenuEffect ==
    /\ mount.phase = "syncMenu"
    /\ ls' = IF ~isRealtime THEN [ls EXCEPT !.pos_menu = <<menu>>] ELSE ls
    /\ mount' = [mount EXCEPT !.phase = "syncOrders"]
    /\ UNCHANGED <<isRealtime, menu, orders, dbOrders, pushQ, nextId, writes, last,
                   menuVars, configured, strict, cart, viewVars>>

\* useEffect(() => {...}, [orders, isRealtime])
SyncOrdersEffect ==
    /\ mount.phase = "syncOrders"
    /\ ls' = IF ~isRealtime THEN [ls EXCEPT !.pos_orders = <<orders>>] ELSE ls
    /\ mount' = IF strict /\ mount.pass = 1
                THEN [mount EXCEPT !.phase = "load", !.pass = 2]
                ELSE [mount EXCEPT !.phase = "render"]
    /\ UNCHANGED <<isRealtime, menu, orders, dbOrders, pushQ, nextId, writes, last,
                   menuVars, configured, strict, cart, viewVars>>

\* the render that applies the queued updates, and the sync effects whose
\* dependencies it changed
Rerender ==
    /\ mount.phase = "render"
    /\ isRealtime' = Applied(isRealtime, mount.queue.isRealtime)
    /\ menu' = Applied(menu, mount.queue.menu)
    /\ orders' = Applied(orders, mount.queue.orders)
    /\ ls' = IF isRealtime' THEN ls
             ELSE [pos_menu |-> IF mount.queue.menu # <<>> THEN <<menu'>>
                                ELSE ls.pos_menu,
                   pos_orders |-> IF mount.queue.orders # <<>> THEN <<orders'>>
                                  ELSE ls.pos_orders]
    /\ mount' = IF configured
                THEN [phase |-> "fetch", pass |-> 0, queue |-> NoUpdates]
                ELSE Mounted
    /\ UNCHANGED <<dbOrders, pushQ, nextId, writes, last, menuVars, configured,
                   strict, cart, viewVars>>

\* fetchData: the two selects answer, before the first notification and the
\* first click
FetchData ==
    /\ mount.phase = "fetch"
    /\ menu' = MenuInOrder(dbMenu)
    /\ orders' = OrdersNewestFirst(dbOrders)
    /\ mount' = Mounted
    /\ UNCHANGED <<isRealtime, dbOrders, pushQ, nextId, writes, last, menuVars, ls,
                   configured, strict, cart, viewVars>>

\* .subscribe() of the mount effect has joined the channel: the backend
\* notifies this client of the rows written from now on
Subscribed == configured /\ mount.phase \in {"fetch", "mounted"}

\* Another terminal on the same backend runs createOrder: the row is
\* inserted and the clients that are subscribed are notified.
OtherTerminalCreatesOrder ==
    /\ configured
    /\ nextId < MaxOrders
    /\ CanWrite
    /\ \E j \in 0..ItemBound, q \in 1..Len(PaymentChoices) :
          LET orderData == OrderData(ItemBound - j, PaymentChoices[q])
              row == [id |-> nextId + 1,
                      items |-> [k \in 1..Len(orderData.items) |->
                                    Unprepared(orderData.items[k])],
                      total |-> orderData.total,
                      status |-> InitialStatus(orderData.paymentStatus),
                      payment_status |-> orderData.paymentStatus]
          IN /\ dbOrders' = dbOrders \cup {row}
             /\ pushQ' = IF Subscribed
                         THEN Append(pushQ, [eventType |-> "INSERT", new |-> row])
                         ELSE pushQ
    /\ nextId' = nextId + 1
    /\ writes' = writes + 1
    /\ last' = [op |-> "otherTerminal", id |-> nextId + 1, pre |-> "none"]
    /\ UNCHANGED <<isRealtime, menu, orders, menuVars, ls, mountVars, cart, viewVars>>

\* a notification is delivered while the answer of fetchData is awaited
DeliverPushBeforeFetch ==
    /\ mount.phase = "fetch"
    /\ pushQ # <<>>
    /\ orders' = ordersSub(Head(pushQ))
    /\ pushQ' = Tail(pushQ)
    /\ last' = [op |-> "ordersSub", id |-> 0, pre |-> "none"]
    /\ UNCHANGED <<isRealtime, menu, dbOrders, nextId, writes, menuVars, ls,
                   mountVars, cart, viewVars>>

\* the page is loaded again: the state of the components is lost, the
\* subscriptions end, localStorage and the backend stay; last records the
\* collections that were in memory
Restart ==
    /\ mount = Mounted
    /\ isRealtime' = FALSE
    /\ menu' = <<>>
    /\ orders' = <<>>
    /\ pushQ' = <<>>
    /\ menuQ' = <<>>
    /\ cart' = <<>>
    /\ mount' = [phase |-> "load", pass |-> 1, queue |-> NoUpdates]
    /\ last' = [op |-> "restart", id |-> 0, pre |-> "none",
                menu |-> menu, orders |-> orders]
    /\ UNCHANGED <<dbOrders, nextId, writes, dbMenu, ls, configured, strict, viewVars>>

---------------------------------------------------------------------------
(* Specifications *)

\* the store after StoreProvider has mounted on an empty backend
StoreInit ==
    /\ isRealtime \in BOOLEAN
    /\ menu = IF isRealtime THEN <<>> ELSE DEFAULT_MENU
    /\ orders = <<>>
    /\ dbOrders = {}
    /\ pushQ = <<>>
    /\ nextId = 0
    /\ writes = 0
    /\ last = NoOp
    /\ dbMenu = {}
    /\ menuQ = <<>>
    /\ ls = [pos_menu |-> <<menu>>, pos_orders |-> <<orders>>]
    /\ configured = isRealtime
    /\ mount = Mounted
    /\ strict = FALSE

Init ==
    /\ StoreInit
    /\ cart = <<>>
    /\ PricingIdle
    /\ ModalIdle
    /\ CheckoutIdle

Next ==
    \/ CreateOrder
    \/ ToggleItem
    \/ MarkAsPickedUp
    \/ handleCancelOrder
    \/ handleDeleteOrder
    \/ DeliverPush

Spec == Init /\ [][Next]_vars

\* the orders of the store over a remote backend that may reject a request
FaultyInit == Init /\ isRealtime

FaultyNext ==
    \/ Next
    \/ CreateOrderRejected
    \/ ToggleItemRejected
    \/ UpdateStatusRejected
    \/ DeleteOrderRejected

SpecFaulty == FaultyInit /\ [][FaultyNext]_vars

\* the whole store: orders and menu
StoreNext ==
    \/ CreateOrder
    \/ ToggleItem
    \/ MarkAsPickedUp
    \/ handleCancelOrder
    \/ handleDeleteOrder
    \/ DeliverPush
    \/ AddMenuItem
    \/ EditMenuItem
    \/ DeleteMenuItem
    \/ DeliverMenuPush

SpecStore == Init /\ [][StoreNext]_vars

\* the first start of the application: nothing is stored, nothing is rendered
\* but the initial state
MountInit ==
    /\ configured \in BOOLEAN
    /\ strict \in BOOLEAN
    /\ isRealtime = FALSE
    /\ menu = <<>>
    /\ orders = <<>>
    /\ dbOrders = {}
    /\ pushQ = <<>>
    /\ nextId = 0
    /\ writes = 0
    /\ last = NoOp
    /\ dbMenu = {}
    /\ menuQ = <<>>
    /\ ls = [pos_menu |-> <<>>, pos_orders |-> <<>>]
    /\ mount = [phase |-> "load", pass |-> 1, queue |-> NoUpdates]
    /\ cart = <<>>
    /\ PricingIdle
    /\ ModalIdle
    /\ CheckoutIdle

\* the mount, the store once it has mounted, and the reload of the page
MountNext ==
    \/ LoadEffect
    \/ SyncMenuEffect
    \/ SyncOrdersEffect
    \/ Rerender
    \/ FetchData
    \/ Restart
    \/ CreateOrder
    \/ ToggleItem
    \/ MarkAsPickedUp
    \/ handleCancelOrder
    \/ handleDeleteOrder
    \/ DeliverPush
    \/ AddMenuItem
    \/ DeleteMenuItem
    \/ DeliverMenuPush

SpecMount == MountInit /\ [][MountNext]_vars

\* the cashier screen of a store in local mode
CartInit ==
    /\ StoreInit
    /\ ~isRealtime
    /\ cart = <<>>
    /\ PricingIdle
    /\ ModalIdle
    /\ CheckoutIdle

CartNext ==
    \/ AddToCart
    \/ UpdateQuantity
    \/ ClearCart

SpecCart == CartInit /\ [][CartNext]_vars

PricingRunInit ==
    /\ StoreInit
    /\ ~isRealtime
    /\ cart = <<>>
    /\ PricingInit
    /\ ModalIdle
    /\ CheckoutIdle

PricingNext == PriceLine

SpecPricing == PricingRunInit /\ [][PricingNext]_vars

\* the mount over a remote backend that other terminals write to
RaceInit == MountInit /\ configured

RaceNext ==
    \/ LoadEffect
    \/ SyncMenuEffect
    \/ SyncOrdersEffect
    \/ Rerender
    \/ FetchData
    \/ Restart
    \/ OtherTerminalCreatesOrder
    \/ DeliverPushBeforeFetch
    \/ DeliverPush
    \/ ToggleItem

SpecRace == RaceInit /\ [][RaceNext]_vars

\* the cashier screen over either backend; the remote backend holds the
\* rows of two menu items, which the client has fetched
CheckoutInit ==
    /\ isRealtime \in BOOLEAN
    /\ dbMenu = IF isRealtime
                THEN {InsertMenuRow(DEFAULT_MENU[k].id, MenuDbItem(DEFAULT_MENU[k])) :
                          k \in 1..ItemBound}
                ELSE {}
    /\ menu = IF isRealtime THEN MenuInOrder(dbMenu) ELSE DEFAULT_MENU
    /\ orders = <<>>
    /\ dbOrders = {}
    /\ pushQ = <<>>
    /\ nextId = 0
    /\ writes = 0
    /\ last = NoOp
    /\ menuQ = <<>>
    /\ ls = IF isRealtime THEN [pos_menu |-> <<>>, pos_orders |-> <<>>]
            ELSE [pos_menu |-> <<menu>>, pos_orders |-> <<orders>>]
    /\ configured = isRealtime
    /\ mount = Mounted
    /\ strict = FALSE
    /\ cart = <<>>
    /\ PricingIdle
    /\ ModalIdle
    /\ CheckoutIdle

CheckoutNext ==
    \/ CashierAddToCart
    \/ CashierUpdateQuantity
    \/ ClearCart
    \/ PressConfirm
    \/ ConfirmOrder
    \/ ConfirmOrderRejected
    \/ ResetAfterSuccess
    \/ DeliverPush

SpecCheckout == CheckoutInit /\ [][CheckoutNext]_vars

\* the menu editor over either backend
EditInit == CheckoutInit

EditNext ==
    \/ SaveEditedPrice
    \/ DeliverMenuPush

SpecEdit == EditInit /\ [][EditNext]_vars

\* components that read the store while the menu is edited
ContextNext ==
    \/ EditNext
    \/ UseStore

SpecContext == EditInit /\ [][ContextNext]_vars

ModalInit == CartInit

ModalNext ==
    \/ OpenModal
    \/ SetName
    \/ SetBasePrice
    \/ SetCategory
    \/ SetBundleEnabled
    \/ SetBuyQuantity
    \/ SetBundlePrice
    \/ SetShowPromoLabel
    \/ SubmitForm
    \/ CloseModal

SpecModal == ModalInit /\ [][ModalNext]_vars

---------------------------------------------------------------------------
(* Properties of the order lifecycle (checked under Spec) *)

MemoryOrders == {orders[k] : k \in 1..Len(orders)}
BackendOrders == {mapDbOrder(r) : r \in dbOrders}

\* the order with this id as the backend in use holds it
Persisted(id) ==
    {o \in (IF isRealtime THEN BackendOrders ELSE MemoryOrders) : o.id = id}

PreparedCount(o) == Cardinality({k \in 1..Len(o.items) : o.items[k].isPrepared})

Toggled == last.op = "toggleOrderItemPrepared"

\* C1: after toggleOrderItemPrepared on an order whose status was neither
\* Cancelled nor Picked Up, the order's status is Pending when no line item
\* is prepared, Preparing when some but not all are, Completed when all (at
\* least one) are, whatever the status was before.
C1_ToggleDerivesStatus ==
    (Toggled /\ last.pre \notin Terminal) =>
        \A o \in Persisted(last.id) :
            /\ PreparedCount(o) = 0 => o.status = "Pending"
            /\ (0 < PreparedCount(o) /\ PreparedCount(o) < Len(o.items))
                   => o.status = "Preparing"
            /\ (PreparedCount(o) = Len(o.items) /\ Len(o.items) > 0)
                   => o.status = "Completed"

\* a toggle on an order created as 'Paid' left it Preparing, one of two prepared
C1_Witness ==
    /\ Toggled
    /\ last.pre = "Paid"
    /\ \E o \in Persisted(last.id) :
          o.status = "Preparing" /\ Len(o.items) = 2 /\ PreparedCount(o) = 1

KeepsTerminal(before, after) ==
    \A o \in before : o.status \in Terminal =>
        \A n \in after : n.id = o.id => n.status = o.status

\* C2: no transition leaves Cancelled or Picked Up: an order that has one of
\* these statuses, in memory or in the backend, keeps it as long as it exists.
C2_TerminalAbsorbing ==
    [][/\ KeepsTerminal(MemoryOrders, MemoryOrders')
       /\ KeepsTerminal(BackendOrders, BackendOrders')]_vars

\* C3: toggling a line item of an order whose status is Cancelled or Picked Up
\* leaves the order's status unchanged.
C3_ToggleKeepsTerminal ==
    (Toggled /\ last.pre \in Terminal) =>
        \A o \in Persisted(last.id) : o.status = last.pre

\* a toggle unprepared an item of a Picked Up order, which is still Picked Up
C3_Witness ==
    /\ Toggled
    /\ last.pre = "Picked Up"
    /\ \E o \in Persisted(last.id) :
          o.status = "Picked Up" /\ PreparedCount(o) < Len(o.items)

\* C4: every order produced by createOrder has status Pending at creation,
\* for both payment statuses.
C4_CreatedPending ==
    last.op = "createOrder" =>
        \A o \in Persisted(last.id) : o.status = "Pending"

\* C10: a toggle on a non-terminal order with zero line items leaves or sets
\* its status to Pending; it never becomes Completed by the prepared count.
C10_EmptyOrderPending ==
    (Toggled /\ last.pre \notin Terminal) =>
        \A o \in Persisted(last.id) :
            Len(o.items) = 0 => (o.status = "Pending" /\ o.status # "Completed")

\* a toggle on an order without line items, created as 'Paid', set it to Pending
C10_Witness ==
    /\ Toggled
    /\ last.pre = "Paid"
    /\ \E o \in Persisted(last.id) : Len(o.items) = 0 /\ o.status = "Pending"

\* the orders as the backend in use holds them
Stored == IF isRealtime THEN BackendOrders ELSE MemoryOrders

\* every order that is Picked Up in after and exists in before was Completed
\* (or already Picked Up) in before
EntersPickedUpFromCompleted(before, after) ==
    \A n \in after : n.status = "Picked Up" =>
        \A o \in before : o.id = n.id => o.status \in {"Completed", "Picked Up"}

\* C11: Picked Up is entered only from Completed: in every step in which the
\* status of an order, as its backend stores it, becomes Picked Up, the
\* stored status before the step was Completed.
C11_PickedUpOnlyFromCompleted ==
    [][EntersPickedUpFromCompleted(Stored, Stored')]_vars

NonTerminal == {"Pending", "Paid", "Preparing", "Completed"}

\* C12: the admin cancel action is available for exactly the orders shown
\* with a status other than Picked Up and Cancelled (Pending, Paid, Preparing,
\* Completed), and performing it sets the order's status, as the backend in
\* use holds it, to Cancelled.
C12_CancelAvailableAndCancels ==
    /\ \A o \in MemoryOrders : CancelAvailable(o) <=> o.status \in NonTerminal
    /\ last.op = "handleCancelOrder" =>
          /\ last.pre \in NonTerminal
          /\ \A o \in Persisted(last.id) : o.status = "Cancelled"

\* an order created as 'Paid' has been cancelled
C12_Witness ==
    /\ last.op = "handleCancelOrder"
    /\ last.pre = "Paid"
    /\ \E o \in Persisted(last.id) : o.status = "Cancelled"

\* every order of before that is still in after has the same payment status
KeepsPaymentStatus(before, after) ==
    \A o \in before : \A n \in after : n.id = o.id => n.paymentStatus = o.paymentStatus

\* C18: the payment status of an order is set at creation and is changed by
\* no later step (toggling a prepared flag, marking Picked Up, cancelling,
\* delivery of a notification), in memory and in the backend.
C18_PaymentStatusFixed ==
    [][/\ KeepsPaymentStatus(MemoryOrders, MemoryOrders')
       /\ KeepsPaymentStatus(BackendOrders, BackendOrders')]_vars

\* an order created as 'Paid' has been prepared and picked up and is still
\* 'Paid'
C18_Witness ==
    /\ last.op = "MarkAsPickedUp"
    /\ \E o \in Persisted(last.id) :
          /\ o.status = "Picked Up"
          /\ o.paymentStatus = "Paid"
          /\ PreparedCount(o) = Len(o.items)
          /\ Len(o.items) > 0

\* C27: an order whose status is Completed has at least one line item and
\* all its line items are prepared, in memory and in the backend.
C27_CompletedAllPrepared ==
    \A o \in MemoryOrders \cup BackendOrders :
        o.status = "Completed" =>
            /\ Len(o.items) >= 1
            /\ PreparedCount(o) = Len(o.items)

\* a two-item order has become Completed through two toggles
C27_Witness ==
    /\ Toggled
    /\ last.pre = "Preparing"
    /\ \E o \in Persisted(last.id) :
          o.status = "Completed" /\ Len(o.items) = 2 /\ PreparedCount(o) = 2

\* the line items of after are those of before with the flag of at most one
\* line item flipped
OneFlagFlipped(before, after) ==
    \/ after = before
    \/ \E itemId \in ItemIdsTried : after = ToggledItems(before, itemId)

\* C25: a toggle flips the flag of its line item in the stored order and
\* keeps the flags of the other line items, so that toggles of distinct line
\* items one after the other accumulate; in remote mode too, where the
\* in-memory order is refreshed only when the push of a write arrives.
C25_TogglesAccumulate ==
    [][Toggled' =>
          \A o \in Stored : \A n \in Stored' :
              n.id = o.id /\ n.id = last'.id => OneFlagFlipped(o.items, n.items)]_vars

Rejected == "rejected" \in DOMAIN last

\* C21: a step in which the backend rejects the write of a store operation
\* leaves the in-memory menu and orders as they were, and a rejected
\* createOrder returns null (<<>>) where an accepted one returns the order.
C21_RejectedWriteKeepsMemory ==
    [][/\ Rejected' =>
            /\ menu' = menu
            /\ orders' = orders
            /\ last'.op = "createOrder" => last'.returned = <<>>
       /\ ~Rejected' /\ last'.op = "createOrder" =>
            /\ Len(last'.returned) = 1
            /\ last'.returned[1] \in Stored']_vars

\* a createOrder was rejected while an order was in memory
C21_Witness ==
    /\ Rejected
    /\ last.op = "createOrder"
    /\ last.returned = <<>>
    /\ orders # <<>>
    /\ Len(pushQ) = 0

---------------------------------------------------------------------------
(* Properties of the whole store (checked under SpecStore) *)

\* every order of before that is still in after has the same total
KeepsTotal(before, after) ==
    \A o \in before : \A n \in after : n.id = o.id => n.total = o.total

\* C17: the total of an order is fixed at creation: no later step (toggling
\* a prepared flag, a status update, adding, updating or deleting a menu
\* item, delivery of a notification) changes the total of an existing order,
\* in memory or in the backend.
C17_TotalFixed ==
    [][/\ KeepsTotal(MemoryOrders, MemoryOrders')
       /\ KeepsTotal(BackendOrders, BackendOrders')]_vars

\* the price of a menu item has been changed while an order in memory holds
\* a line of that item at the old price, and the order has its total
C17_Witness ==
    /\ last.op = "updateMenuItem"
    /\ \E o \in MemoryOrders :
          /\ o.total = cartTotalOf(o.items)
          /\ \E k \in 1..Len(o.items) :
                /\ o.items[k].id = last.menuId
                /\ o.items[k].basePrice # last.item.basePrice

\* an order of before that is missing in after was removed by the step
\* deleteOrder for its id
RemovedOnlyByDeleteOrder(before, after) ==
    \A o \in before :
        (\A n \in after : n.id # o.id) =>
            (last'.op = "deleteOrder" /\ last'.id = o.id)

MemoryMenu == {menu[k] : k \in 1..Len(menu)}
BackendMenu == {mapDbMenuItem(r) : r \in dbMenu}

\* nothing the backend has published is still on its way to the client
Delivered == pushQ = <<>> /\ menuQ = <<>>

\* the step of the last operation is visible in the in-memory collections
ReflectedLocally ==
    /\ last.op = "createOrder" => last.id \in OrderIds(orders)
    /\ last.op = "deleteOrder" => last.id \notin OrderIds(orders)
    /\ last.op = "handleCancelOrder" =>
          \A o \in MemoryOrders : o.id = last.id => o.status = "Cancelled"
    /\ last.op = "MarkAsPickedUp" =>
          \A o \in MemoryOrders : o.id = last.id => o.status = "Picked Up"
    /\ last.op = "addMenuItem" => last.menuId \in MenuIds(menu)
    /\ last.op = "updateMenuItem" =>
          \A item \in MemoryMenu :
              item.id = last.menuId => item.basePrice = last.item.basePrice
    /\ last.op = "deleteMenuItem" => last.menuId \notin MenuIds(menu)

\* C14: every mutation the backend has accepted is reflected in the client's
\* in-memory collections, at once in local mode and, in remote mode, once
\* the notifications the backend published have been delivered: the orders
\* and the menu in memory are then the orders and the menu of the backend.
C14_MutationsReflected ==
    /\ ~isRealtime => ReflectedLocally
    /\ (isRealtime /\ Delivered) =>
          /\ MemoryOrders = BackendOrders
          /\ MemoryMenu = BackendMenu

\* the entries of before with another id are in after
OthersKept(before, after, id) ==
    \A e \in before : e.id # id => e \in after

\* the notification is merged into the collection by identity
MergedById(payload, before, after, row) ==
    /\ payload.eventType = "INSERT" =>
          row \in after /\ OthersKept(before, after, row.id)
    /\ payload.eventType = "UPDATE" =>
          /\ \A e \in after : e.id = row.id => e = row
          /\ {e.id : e \in after} = {e.id : e \in before}
          /\ OthersKept(before, after, row.id)
    /\ payload.eventType = "DELETE" =>
          /\ \A e \in after : e.id # payload.old.id
          /\ OthersKept(before, after, payload.old.id)

\* C15: in remote mode every notification, of the menu table and of the
\* orders table, is merged into the in-memory collection by identity: an
\* insert adds the row, an update replaces the entry with the id of the row
\* by the row, a delete removes the entry with that id, and the entries with
\* other ids are unchanged.
C15_PushMergedById ==
    [][/\ last'.op = "ordersSub" =>
             MergedById(Head(pushQ), MemoryOrders, MemoryOrders',
                        IF Head(pushQ).eventType = "DELETE" THEN Head(pushQ).old
                        ELSE mapDbOrder(Head(pushQ).new))
       /\ last'.op = "menuSub" =>
             MergedById(Head(menuQ), MemoryMenu, MemoryMenu',
                        IF Head(menuQ).eventType = "DELETE" THEN Head(menuQ).old
                        ELSE mapDbMenuItem(Head(menuQ).new))]_vars

\* the menu half of C15 (menuSub handles all three events)
MenuPushMergedById ==
    [][last'.op = "menuSub" =>
           MergedById(Head(menuQ), MemoryMenu, MemoryMenu',
                      IF Head(menuQ).eventType = "DELETE" THEN Head(menuQ).old
                      ELSE mapDbMenuItem(Head(menuQ).new))]_vars

\* two menu items agree on name, basePrice, category, image and bundle; an
\* optional property that is missing counts as null
SameItemData(a, b) ==
    /\ a.name = b.name
    /\ a.basePrice = b.basePrice
    /\ a.category = b.category
    /\ Prop(a, "image") = Prop(b, "image")
    /\ ("bundle" \in DOMAIN a) = ("bundle" \in DOMAIN b)
    /\ ("bundle" \in DOMAIN a /\ "bundle" \in DOMAIN b) => a.bundle = b.bundle

---------------------------------------------------------------------------
(* Properties of the mount and of the choice of backend (checked under      *)
(* SpecMount)                                                               *)

\* C13: every mutation is persisted to exactly one backend, chosen once at
\* startup: when the remote backend is configured no step writes to local
\* storage, startup included, and the mounted store is in realtime mode, so
\* that no operation takes the local path; when it is not configured no step
\* writes to the remote backend and the store is never in realtime mode.
C13_ExactlyOneBackend ==
    [][/\ configured =>
             /\ ls' = ls
             /\ mount = Mounted => isRealtime
       /\ ~configured =>
             /\ UNCHANGED <<dbOrders, dbMenu, writes, pushQ, menuQ>>
             /\ ~isRealtime]_vars

\* the part of C13 about a store whose remote backend is not configured
LocalNeverWritesRemote ==
    [][~configured =>
           /\ UNCHANGED <<dbOrders, dbMenu, writes, pushQ, menuQ>>
           /\ ~isRealtime]_vars

\* C16: in local mode the stored collections are overwritten after every
\* in-memory mutation (the mounted store and local storage agree), the load
\* effect of a restart finds stored what was in memory before the restart,
\* never an empty collection written by the startup itself, and once the
\* store has mounted again the menu and the orders in memory are those of
\* before the restart.
C16_LocalRestartRestores ==
    ~configured =>
        /\ mount = Mounted =>
              ls = [pos_menu |-> <<menu>>, pos_orders |-> <<orders>>]
        /\ (last.op = "restart" /\ mount.phase = "load") =>
              ls = [pos_menu |-> <<last.menu>>, pos_orders |-> <<last.orders>>]
        /\ (last.op = "restart" /\ mount = Mounted) =>
              menu = last.menu /\ orders = last.orders

\* the menu as the backend in use holds it; in remote mode the in-memory item
\* becomes the mapped row when the update notification is delivered
StoredMenu == IF isRealtime THEN BackendMenu ELSE MemoryMenu

UpdateFields == {"name", "basePrice", "category", "bundle"}

\* C30: after updateMenuItem every field present in the update is the field
\* of the stored item, a basePrice of 0 included, under the remote backend as
\* under the local one.
C30_UpdateSameUnderBothBackends ==
    last.op = "updateMenuItem" =>
        \A item \in StoredMenu :
            item.id = last.menuId =>
                \A field \in UpdateFields \cap DOMAIN last.item :
                    item[field] = last.item[field]

UniqueIds(items) ==
    \A j, k \in 1..Len(items) : items[j].id = items[k].id => j = k

\* C26: the in-memory orders hold at most one entry per order id and the
\* in-memory menu at most one entry per item id.
C26_OneEntryPerId == UniqueIds(orders) /\ UniqueIds(menu)

---------------------------------------------------------------------------
(* Properties of calculateItemTotal (checked under SpecPricing) *)

Priced == priceOut # <<>>

\* the item of the pricing run has a bundle and it is enabled
BundleEnabled == HasBundle(priceIn.item) /\ priceIn.item.bundle.enabled

\* C5: with an enabled bundle whose buyQuantity and bundlePrice are both
\* non-zero, the total is floor(quantity / buyQuantity) * bundlePrice
\* + (quantity mod buyQuantity) * basePrice.
C5_BundleFormula ==
    (/\ Priced
     /\ BundleEnabled
     /\ priceIn.item.bundle.buyQuantity # 0
     /\ priceIn.item.bundle.bundlePrice # 0) =>
        \E bundleCount, remainder \in 0..priceIn.quantity :
            /\ priceIn.quantity = bundleCount * priceIn.item.bundle.buyQuantity + remainder
            /\ remainder < priceIn.item.bundle.buyQuantity
            /\ priceOut[1] = bundleCount * priceIn.item.bundle.bundlePrice
                             + remainder * priceIn.item.basePrice

\* two complete bundles and a remainder have been priced
C5_Witness ==
    /\ Priced
    /\ BundleEnabled
    /\ priceIn.item.bundle.buyQuantity = 2
    /\ priceIn.item.bundle.bundlePrice # 0
    /\ priceIn.quantity = 5
    /\ priceOut[1] = 2 * priceIn.item.bundle.bundlePrice + priceIn.item.basePrice

\* C6: when the bundle is absent, or not enabled, or its buyQuantity is 0, or
\* its bundlePrice is 0, the total is basePrice * quantity.
C6_NoBundleLinear ==
    (/\ Priced
     /\ \/ ~HasBundle(priceIn.item)
        \/ ~priceIn.item.bundle.enabled
        \/ priceIn.item.bundle.buyQuantity = 0
        \/ priceIn.item.bundle.bundlePrice = 0) =>
        priceOut[1] = priceIn.item.basePrice * priceIn.quantity

\* an enabled bundle with a positive buyQuantity and bundlePrice 0 was priced
\* at the base price
C6_Witness ==
    /\ Priced
    /\ BundleEnabled
    /\ priceIn.item.bundle.buyQuantity = 2
    /\ priceIn.item.bundle.bundlePrice = 0
    /\ priceIn.quantity = 4
    /\ priceOut[1] = 4 * priceIn.item.basePrice
    /\ priceOut[1] > 0

\* C7 as stated: for every enabled bundle with buyQuantity b and bundlePrice
\* p and every k >= 0, the total for quantity k*b is k*p.
C7_MultiplesAnyBundle ==
    \A k \in 0..MaxQuantity :
        (/\ Priced
         /\ BundleEnabled
         /\ priceIn.quantity = k * priceIn.item.bundle.buyQuantity) =>
            priceOut[1] = k * priceIn.item.bundle.bundlePrice

\* C7 amended: for every enabled bundle with buyQuantity b and bundlePrice p,
\* both non-zero, and every k >= 0, the total for quantity k*b is k*p,
\* independent of the base price.
C7_Multiples ==
    \A k \in 0..MaxQuantity :
        (/\ Priced
         /\ BundleEnabled
         /\ priceIn.item.bundle.buyQuantity # 0
         /\ priceIn.item.bundle.bundlePrice # 0
         /\ priceIn.quantity = k * priceIn.item.bundle.buyQuantity) =>
            priceOut[1] = k * priceIn.item.bundle.bundlePrice

\* two bundles of three have been priced at twice the bundle price
C7_Witness ==
    /\ Priced
    /\ BundleEnabled
    /\ priceIn.item.bundle.buyQuantity = 3
    /\ priceIn.item.bundle.bundlePrice # 0
    /\ priceIn.quantity = 6
    /\ priceOut[1] = 2 * priceIn.item.bundle.bundlePrice

\* C8: for every enabled bundle with buyQuantity b, the total for quantity
\* b-1 is basePrice * (b-1): no bundle credit below the threshold.
C8_BelowThreshold ==
    (/\ Priced
     /\ BundleEnabled
     /\ priceIn.quantity = priceIn.item.bundle.buyQuantity - 1) =>
        priceOut[1] = priceIn.item.basePrice * (priceIn.item.bundle.buyQuantity - 1)

\* one unit short of a priced bundle of three costs two base prices
C8_Witness ==
    /\ Priced
    /\ BundleEnabled
    /\ priceIn.item.bundle.buyQuantity = 3
    /\ priceIn.item.bundle.bundlePrice # 0
    /\ priceIn.quantity = 2
    /\ priceOut[1] = 2 * priceIn.item.basePrice

---------------------------------------------------------------------------
(* Properties of the cashier cart (checked under SpecCart) *)

\* C23: every cart line has quantity >= 1 in every state a step leads to,
\* and a quantity change alters the line of one item only: it is clamped at
\* 0, a line that reaches 0 is removed, and the lines of the other items are
\* the same lines in the same order.
C23_CartQuantityPositive ==
    [][/\ \A k \in 1..Len(cart') : cart'[k].quantity >= 1
       /\ last'.op = "updateQuantity" =>
             LET Other(line) == line.id # last'.itemId
             IN /\ CartIndex(last'.itemId) # {}
                /\ SelectSeq(cart', Other) = SelectSeq(cart, Other)
                /\ \A k \in CartIndex(last'.itemId) : \E delta \in {-1, 1} :
                      LET clamped == Max(0, cart[k].quantity + delta)
                      IN IF clamped = 0
                         THEN /\ \A j \in 1..Len(cart') : cart'[j].id # last'.itemId
                              /\ Len(cart') = Len(cart) - 1
                         ELSE cart' = [cart EXCEPT ![k].quantity = clamped]]_vars

\* the - button on a line of quantity 1 has removed that line and left the
\* other line in the cart
C23_Witness ==
    /\ last.op = "updateQuantity"
    /\ CartIndex(last.itemId) = {}
    /\ Len(cart) = 1
    /\ cart[1].quantity = 3

\* the cart holds one line, of the item with base price 35000 and bundle
\* {enabled, buyQuantity 2, bundlePrice 60000}, with this quantity
OnlyIcedLatte(quantity) ==
    /\ Len(cart) = 1
    /\ cart[1].basePrice = 35000
    /\ HasBundle(cart[1])
    /\ cart[1].bundle.enabled
    /\ cart[1].bundle.buyQuantity = 2
    /\ cart[1].bundle.bundlePrice = 60000
    /\ cart[1].quantity = quantity

\* C9: with that item as the only cart line, the cart total is 60000 at
\* quantity 2, 95000 at quantity 3 and 155000 at quantity 5, whatever steps
\* led to the quantity.
C9_CartScenario ==
    /\ OnlyIcedLatte(2) => cartTotal = 60000
    /\ OnlyIcedLatte(3) => cartTotal = 95000
    /\ OnlyIcedLatte(5) => cartTotal = 155000

C9_Witness == OnlyIcedLatte(5) /\ cartTotal = 155000

---------------------------------------------------------------------------
(* Properties of the item modal (checked under SpecModal) *)

\* C24: an item handed to onSave with bundle pricing disabled has
\* buyQuantity 0, bundlePrice 0 and showPromoLabel false, whatever the bundle
\* fields of the form hold.
C24_DisabledBundleZeroed ==
    \A k \in 1..Len(savedItem) :
        ~savedItem[k].bundle.enabled =>
            /\ savedItem[k].bundle.buyQuantity = 0
            /\ savedItem[k].bundle.bundlePrice = 0
            /\ savedItem[k].bundle.showPromoLabel = FALSE

\* an item was saved with the bundle disabled while the bundle fields of the
\* form still held a quantity, a price and the promo label
C24_Witness ==
    /\ savedItem # <<>>
    /\ ~form.bundleEnabled
    /\ parseIntOrZero(form.buyQuantity) = 3
    /\ parseIntOrZero(form.bundlePrice) = 75000
    /\ form.showPromoLabel
    /\ ~savedItem[1].bundle.enabled

---------------------------------------------------------------------------
(* Properties of the cashier's confirmation (checked under SpecCheckout) *)

\* C28: the total of every order created from the cashier screen is the sum
\* of calculateItemTotal over the line items stored in that order, also when
\* the cart was edited during the processing delay.
C28_TotalMatchesStoredItems ==
    \A o \in MemoryOrders \cup BackendOrders :
        o.total = SeqSum([k \in 1..Len(o.items) |->
                             calculateItemTotal(o.items[k], o.items[k].quantity)])

\* an order was created from a cart that was edited during the delay: the
\* cart on screen is no longer the cart of the click
C28_Witness ==
    /\ checkout.phase = "success"
    /\ checkout.created
    /\ cart # checkout.cart
    /\ CartUnits(cart) > CartUnits(checkout.cart)
    /\ \E o \in Stored : Len(o.items) = Len(checkout.cart) /\ o.total > 0

\* C29: the success state is shown, and the cart then cleared, only for an
\* order that was created; after a createOrder that failed the cart is kept.
C29_SuccessOnlyWhenCreated ==
    [][/\ checkout'.phase = "success" => checkout'.created
       /\ checkout.phase = "success" /\ ~checkout.created => cart' = cart]_vars

---------------------------------------------------------------------------
(* Properties of useStore (checked under SpecContext) *)

\* C22: useStore called without a StoreProvider above the caller throws and
\* returns no store value; called below a StoreProvider it returns the store.
C22_UseStoreThrowsOutsideProvider ==
    last.op = "useStore" =>
        IF last.provided
        THEN /\ ~last.result.threw
             /\ last.result.value.menu = menu
             /\ last.result.value.orders = orders
        ELSE /\ last.result.threw
             /\ "value" \notin DOMAIN last.result

\* useStore was called without a provider, after the menu had been edited
C22_Witness ==
    /\ last.op = "useStore"
    /\ ~last.provided
    /\ last.result.threw
    /\ menu # DEFAULT_MENU
    /\ menu # <<>>

====
